---- MODULE Spec2Model ----
(***************************************************************************)
(* Request-admission subsystem of the secure todo application:             *)
(*   - RateLimiter.isAllowed      (lib/validation, sliding window)         *)
(*   - sanitizeInput              (lib/validation, denylist filter)        *)
(*   - signUpSchema / signInSchema / todoSchema (zod schemas)              *)
(*   - handleSignUp / handleSignIn / addTodo (the three page handlers)     *)
(* Strings are sequences of one-character strings; timestamps are integer  *)
(* milliseconds as returned by Date.now().                                 *)
(***************************************************************************)
EXTENDS Integers, Sequences, FiniteSets, TLC

VARIABLES
    now,        \* the value Date.now() returns
    attempts,   \* RateLimiter.attempts : Map<string, number[]>
    cfg,        \* limiter harness: the (maxAttempts, windowMs) each key is called with
    calls,      \* limiter harness: per key, every isAllowed call so far, in order
    last,       \* limiter harness: the most recent isAllowed call
    sInput,     \* sanitizer harness: the argument of sanitizeInput
    sOut,       \* sanitizer harness: sanitizeInput(sInput)
    sTwice,     \* sanitizer harness: sanitizeInput(sanitizeInput(sInput))
    sStep,      \* sanitizer harness: how many times sanitizeInput was applied
    vInput,     \* schema harness: the schema and the raw object given to parse
    vResult,    \* schema harness: what parse returned
    vStep,      \* schema harness: 1 once parse has run
    page,       \* pages: which page component this behaviour follows
    formData,   \* pages: the formData / newTodo state of the page
    error,      \* pages: the error state of the page, as shown to the user
    loading,    \* pages: the loading state of the page
    checking,   \* pages: checkUser is waiting for auth.getUser
    pending,    \* pages: how many handlers are suspended at their await
    admitted,   \* pages: the timestamps of the invocations isAllowed admitted
    fetching,   \* pages: fetchTodos calls waiting for their select
    route,      \* pages: the last router.push
    edits,      \* pages: how many times the form was edited
    inv         \* pages: the most recent handler invocation, and whether the schema
                \* has rejected every invocation admitted so far

limVars == <<now, attempts, cfg, calls, last>>
sanVars == <<sInput, sOut, sTwice, sStep>>
schVars == <<vInput, vResult, vStep>>
appVars == <<page, formData, error, loading, checking, pending, admitted, fetching,
             route, edits, inv>>
vars == <<limVars, sanVars, schVars, appVars>>

(***************************************************************************)
(* Bounds of the limiter harness.                                          *)
(***************************************************************************)
MaxAttemptsBound == 3
MaxWindowMs == 3
MaxClock == 4
MaxCalls == 4
\* bound of the sanitizer harness: fragments per input string
MaxFrags == 3
\* bound of the schema harness: blanks put before and after a raw value
MaxPad == 1
\* bounds of the pages: form edits, handlers suspended at once, clock ticks
MaxEdits == 1
MaxPending == 2
MaxTicks == 1

Keys == {"k1", "k2"}

NoCall == [key |-> "none"]

(***************************************************************************)
(* Map<string, number[]>: a function whose domain is the set of keys that  *)
(* have an entry.                                                          *)
(***************************************************************************)
EmptyMap == [k \in {} |-> <<>>]

\* this.attempts.get(key) || []
MapGet(m, key) == IF key \in DOMAIN m THEN m[key] ELSE <<>>

MapSetAll(m, key, val) == [k \in (DOMAIN m) \cup {key} |-> val]

\* this.attempts.set(key, recentAttempts)
MapSet(m, key, val) ==
    [k \in (DOMAIN m) \cup {key} |-> IF k = key THEN val ELSE m[k]]

InWindowShort(time, t, windowMs) == t - time < windowMs - 1

\* the filter predicate: time => now - time < windowMs
InWindow(time, t, windowMs) == t - time < windowMs

\* userAttempts.filter(time => now - time < windowMs)
RecentAttempts(userAttempts, t, windowMs) ==
    SelectSeq(userAttempts, LAMBDA time : InWindow(time, t, windowMs))

isAllowedPushOnDeny(m, key, maxAttempts, windowMs, t) ==
    LET recentAttempts == RecentAttempts(MapGet(m, key), t, windowMs)
    IN  IF Len(recentAttempts) >= maxAttempts
        THEN [ok |-> FALSE,
              attempts |-> MapSet(m, key, Append(recentAttempts, t))]
        ELSE [ok |-> TRUE,
              attempts |-> MapSet(m, key, Append(recentAttempts, t))]

isAllowedNoPush(m, key, maxAttempts, windowMs, t) ==
    LET recentAttempts == RecentAttempts(MapGet(m, key), t, windowMs)
    IN  IF Len(recentAttempts) >= maxAttempts
        THEN [ok |-> FALSE, attempts |-> m]
        ELSE [ok |-> TRUE, attempts |-> MapSet(m, key, recentAttempts)]

\* isAllowed with the budget compared by > instead of >=
isAllowedOffByOne(m, key, maxAttempts, windowMs, t) ==
    LET recentAttempts == RecentAttempts(MapGet(m, key), t, windowMs)
    IN  IF Len(recentAttempts) > maxAttempts
        THEN [ok |-> FALSE, attempts |-> m]
        ELSE [ok |-> TRUE,
              attempts |-> MapSet(m, key, Append(recentAttempts, t))]

\* RateLimiter.isAllowed: the returned boolean and the map after the call
isAllowed(m, key, maxAttempts, windowMs, t) ==
    LET recentAttempts == RecentAttempts(MapGet(m, key), t, windowMs)
    IN  IF Len(recentAttempts) >= maxAttempts
        THEN [ok |-> FALSE, attempts |-> m]
        ELSE [ok |-> TRUE,
              attempts |-> MapSet(m, key, Append(recentAttempts, t))]

(***************************************************************************)
(* Characters and strings.                                                 *)
(***************************************************************************)
UpperChars == <<"A","B","C","D","E","F","G","H","I","J","K","L","M",
                "N","O","P","Q","R","S","T","U","V","W","X","Y","Z">>
LowerChars == <<"a","b","c","d","e","f","g","h","i","j","k","l","m",
                "n","o","p","q","r","s","t","u","v","w","x","y","z">>
DigitChars == {"0","1","2","3","4","5","6","7","8","9"}

IsUpper(c) == \E i \in 1..26 : UpperChars[i] = c
IsLower(c) == \E i \in 1..26 : LowerChars[i] = c
IsDigit(c) == c \in DigitChars

\* one character of String.prototype.toLowerCase
LowerChar(c) ==
    IF IsUpper(c) THEN LowerChars[CHOOSE i \in 1..26 : UpperChars[i] = c] ELSE c

\* val.toLowerCase()
toLowerCase(s) == [i \in 1..Len(s) |-> LowerChar(s[i])]

\* the regular-expression class \w
IsWordChar(c) == IsUpper(c) \/ IsLower(c) \/ IsDigit(c) \/ c = "_"

\* the characters String.prototype.trim removes
IsWhitespace(c) == c \in {" ", "\t", "\n", "\r"}

\* val.trim()
trim(s) ==
    IF \A i \in 1..Len(s) : IsWhitespace(s[i]) THEN <<>>
    ELSE LET first == CHOOSE i \in 1..Len(s) :
                         /\ ~IsWhitespace(s[i])
                         /\ \A j \in 1..(i-1) : IsWhitespace(s[j])
             lastc == CHOOSE i \in 1..Len(s) :
                         /\ ~IsWhitespace(s[i])
                         /\ \A j \in (i+1)..Len(s) : IsWhitespace(s[j])
         IN  SubSeq(s, first, lastc)

(***************************************************************************)
(* sanitizeInput: three global replacements, then trim.                    *)
(***************************************************************************)
\* .replace(/[<>]/g, '')
StripAngles(s) == SelectSeq(s, LAMBDA c : c \notin {"<", ">"})

JavascriptLit == <<"j","a","v","a","s","c","r","i","p","t",":">>

\* does /javascript:/i match at index i of s
JavascriptAt(s, i) ==
    /\ i + Len(JavascriptLit) - 1 <= Len(s)
    /\ \A j \in 1..Len(JavascriptLit) : LowerChar(s[i + j - 1]) = JavascriptLit[j]

\* .replace(/javascript:/gi, ''): one left-to-right scan from index i,
\* deleting each match and resuming after it
RECURSIVE RemoveJavascriptFrom(_, _)
RemoveJavascriptFrom(s, i) ==
    IF i > Len(s) THEN <<>>
    ELSE IF JavascriptAt(s, i)
         THEN RemoveJavascriptFrom(s, i + Len(JavascriptLit))
         ELSE <<s[i]>> \o RemoveJavascriptFrom(s, i + 1)

RemoveJavascript(s) == RemoveJavascriptFrom(s, 1)

\* the length of the longest run of \w characters of s that starts at index i
WordRun(s, i) ==
    CHOOSE n \in 0..(Len(s) + 1) :
       /\ \A j \in i..(i + n - 1) : j <= Len(s) /\ IsWordChar(s[j])
       /\ (i + n > Len(s) \/ ~IsWordChar(s[i + n]))

\* the length of the match of /on\w+=/i at index i of s, 0 when there is
\* none: \w+ is greedy and "=" is no \w, so the match is "on", the whole
\* run of \w characters, which must not be empty, and "="
OnHandlerAt(s, i) ==
    IF /\ i + 1 <= Len(s)
       /\ LowerChar(s[i]) = "o"
       /\ LowerChar(s[i + 1]) = "n"
    THEN LET r == WordRun(s, i + 2)
         IN  IF r >= 1 /\ i + 2 + r <= Len(s) /\ s[i + 2 + r] = "="
             THEN r + 3 ELSE 0
    ELSE 0

\* .replace(/on\w+=/gi, '')
RECURSIVE RemoveOnHandlersFrom(_, _)
RemoveOnHandlersFrom(s, i) ==
    IF i > Len(s) THEN <<>>
    ELSE IF OnHandlerAt(s, i) > 0
         THEN RemoveOnHandlersFrom(s, i + OnHandlerAt(s, i))
         ELSE <<s[i]>> \o RemoveOnHandlersFrom(s, i + 1)

RemoveOnHandlers(s) == RemoveOnHandlersFrom(s, 1)

sanitizeInputTrimFirst(input) ==
    RemoveOnHandlers(RemoveJavascript(StripAngles(trim(input))))

sanitizeInput(input) ==
    trim(RemoveOnHandlers(RemoveJavascript(StripAngles(input))))

(***************************************************************************)
(* The zod schemas. parse runs every check of every field in declaration   *)
(* order on the raw value and collects one issue per failed check; a       *)
(* field's transform runs only when the field has no issue; the object's   *)
(* refinement runs after the fields and adds its issue after theirs.       *)
(***************************************************************************)
EmailMin == 5
EmailMax == 100
PasswordMin == 8
PasswordMax == 100
SignInPasswordMin == 1
TitleMin == 1
TitleMax == 200
DescriptionMax == 1000

Issue(path, code, message) == [path |-> path, code |-> code, message |-> message]

\* one check of a field: the issue it adds when it fails
Check(fails, path, code, message) ==
    IF fails THEN <<Issue(path, code, message)>> ELSE <<>>

NoData == [none |-> TRUE]

\* an optional value: undefined, or a string
Undefined == [some |-> FALSE, val |-> <<>>]
Some(s) == [some |-> TRUE, val |-> s]

\* a nullable string
Null == [null |-> TRUE, val |-> <<>>]
Str(s) == [null |-> FALSE, val |-> s]

IsLetter(c) == IsUpper(c) \/ IsLower(c)
IsAlnum(c) == IsLetter(c) \/ IsDigit(c)

\* the part after "@": ([A-Z0-9][A-Z0-9\-]*\.)+[A-Z]{2,}$ under /i
EmailDomainOk(d) ==
    LET dots == {i \in 1..Len(d) : d[i] = "."}
    IN  /\ dots # {}
        /\ LET lastDot == CHOOSE i \in dots : \A j \in dots : j <= i
           IN  /\ Len(d) - lastDot >= 2
               /\ \A i \in (lastDot + 1)..Len(d) : IsLetter(d[i])
               /\ \A i \in 1..lastDot :
                     /\ IsAlnum(d[i]) \/ d[i] = "-" \/ d[i] = "."
                     /\ (i = 1 \/ d[i - 1] = ".") => IsAlnum(d[i])

\* the part before "@": ^(?!\.)([A-Z0-9_'+\-\.]*)[A-Z0-9_+-] under /i
EmailLocalOk(l) ==
    /\ l # <<>>
    /\ l[1] # "."
    /\ \A i \in 1..Len(l) : IsAlnum(l[i]) \/ l[i] \in {"_", "'", "+", "-", "."}
    /\ IsAlnum(l[Len(l)]) \/ l[Len(l)] \in {"_", "+", "-"}

\* z.string().email(): the whole string matches the email pattern, which
\* has exactly one "@" and (?!.*\.\.) no two dots in a row
IsEmail(s) ==
    LET ats == {i \in 1..Len(s) : s[i] = "@"}
    IN  /\ Cardinality(ats) = 1
        /\ \A i \in 1..(Len(s) - 1) : ~(s[i] = "." /\ s[i + 1] = ".")
        /\ LET at == CHOOSE i \in ats : TRUE
           IN  /\ EmailLocalOk(SubSeq(s, 1, at - 1))
               /\ EmailDomainOk(SubSeq(s, at + 1, Len(s)))

ParseResult(issues, data) ==
    IF issues = <<>>
    THEN [success |-> TRUE, data |-> data, issues |-> <<>>]
    ELSE [success |-> FALSE, data |-> NoData, issues |-> issues]

\* signUpSchema with the two passwords compared without regard to case
signUpSchemaLooseMatch(d) ==
    LET emailIssues ==
            Check(~IsEmail(d.email), "email", "invalid_string", "Email tidak valid")
         \o Check(Len(d.email) < EmailMin, "email", "too_small", "Email minimal 5 karakter")
         \o Check(Len(d.email) > EmailMax, "email", "too_big", "Email maksimal 100 karakter")
        passwordIssues ==
            Check(Len(d.password) < PasswordMin, "password", "too_small",
                  "Password minimal 8 karakter")
         \o Check(Len(d.password) > PasswordMax, "password", "too_big",
                  "Password maksimal 100 karakter")
         \o Check(~\E i \in 1..Len(d.password) : IsUpper(d.password[i]),
                  "password", "invalid_string", "Password harus mengandung huruf besar")
         \o Check(~\E i \in 1..Len(d.password) : IsLower(d.password[i]),
                  "password", "invalid_string", "Password harus mengandung huruf kecil")
         \o Check(~\E i \in 1..Len(d.password) : IsDigit(d.password[i]),
                  "password", "invalid_string", "Password harus mengandung angka")
        refineIssues ==
            Check(toLowerCase(d.password) # toLowerCase(d.confirmPassword),
                  "confirmPassword", "custom", "Password tidak cocok")
    IN  ParseResult(emailIssues \o passwordIssues \o refineIssues,
                    [email |-> trim(toLowerCase(d.email)),
                     password |-> d.password,
                     confirmPassword |-> d.confirmPassword])

\* signUpSchema with the password trimmed like the email
signUpSchemaTrimPassword(d) ==
    LET emailIssues ==
            Check(~IsEmail(d.email), "email", "invalid_string", "Email tidak valid")
         \o Check(Len(d.email) < EmailMin, "email", "too_small", "Email minimal 5 karakter")
         \o Check(Len(d.email) > EmailMax, "email", "too_big", "Email maksimal 100 karakter")
        passwordIssues ==
            Check(Len(d.password) < PasswordMin, "password", "too_small",
                  "Password minimal 8 karakter")
         \o Check(Len(d.password) > PasswordMax, "password", "too_big",
                  "Password maksimal 100 karakter")
         \o Check(~\E i \in 1..Len(d.password) : IsUpper(d.password[i]),
                  "password", "invalid_string", "Password harus mengandung huruf besar")
         \o Check(~\E i \in 1..Len(d.password) : IsLower(d.password[i]),
                  "password", "invalid_string", "Password harus mengandung huruf kecil")
         \o Check(~\E i \in 1..Len(d.password) : IsDigit(d.password[i]),
                  "password", "invalid_string", "Password harus mengandung angka")
        refineIssues ==
            Check(d.password # d.confirmPassword, "confirmPassword", "custom",
                  "Password tidak cocok")
    IN  ParseResult(emailIssues \o passwordIssues \o refineIssues,
                    [email |-> trim(toLowerCase(d.email)),
                     password |-> trim(d.password),
                     confirmPassword |-> d.confirmPassword])

signUpSchema(d) ==
    LET emailIssues ==
            Check(~IsEmail(d.email), "email", "invalid_string", "Email tidak valid")
         \o Check(Len(d.email) < EmailMin, "email", "too_small", "Email minimal 5 karakter")
         \o Check(Len(d.email) > EmailMax, "email", "too_big", "Email maksimal 100 karakter")
        passwordIssues ==
            Check(Len(d.password) < PasswordMin, "password", "too_small",
                  "Password minimal 8 karakter")
         \o Check(Len(d.password) > PasswordMax, "password", "too_big",
                  "Password maksimal 100 karakter")
         \o Check(~\E i \in 1..Len(d.password) : IsUpper(d.password[i]),
                  "password", "invalid_string", "Password harus mengandung huruf besar")
         \o Check(~\E i \in 1..Len(d.password) : IsLower(d.password[i]),
                  "password", "invalid_string", "Password harus mengandung huruf kecil")
         \o Check(~\E i \in 1..Len(d.password) : IsDigit(d.password[i]),
                  "password", "invalid_string", "Password harus mengandung angka")
        refineIssues ==
            Check(d.password # d.confirmPassword, "confirmPassword", "custom",
                  "Password tidak cocok")
    IN  ParseResult(emailIssues \o passwordIssues \o refineIssues,
                    [email |-> trim(toLowerCase(d.email)),
                     password |-> d.password,
                     confirmPassword |-> d.confirmPassword])

signInSchema(d) ==
    LET emailIssues ==
            Check(~IsEmail(d.email), "email", "invalid_string", "Email tidak valid")
        passwordIssues ==
            Check(Len(d.password) < SignInPasswordMin, "password", "too_small",
                  "Password wajib diisi")
    IN  ParseResult(emailIssues \o passwordIssues,
                    [email |-> trim(toLowerCase(d.email)), password |-> d.password])

\* val?.trim() || null
TrimOrNull(o) ==
    IF o.some /\ trim(o.val) # <<>> THEN Str(trim(o.val)) ELSE Null

todoSchema(d) ==
    LET titleIssues ==
            Check(Len(d.title) < TitleMin, "title", "too_small", "Judul wajib diisi")
         \o Check(Len(d.title) > TitleMax, "title", "too_big",
                  "Judul maksimal 200 karakter")
        descriptionIssues ==
            Check(d.description.some /\ Len(d.description.val) > DescriptionMax,
                  "description", "too_big", "Deskripsi maksimal 1000 karakter")
    IN  ParseResult(titleIssues \o descriptionIssues,
                    [title |-> trim(d.title),
                     description |-> TrimOrNull(d.description)])

\* schema.parse(data)
Parse(schema, d) ==
    CASE schema = "signUp" -> signUpSchema(d)
      [] schema = "signIn" -> signInSchema(d)
      [] schema = "todo" -> todoSchema(d)

\* the normalization each schema declares for its fields, on the raw object
Normalized(schema, d) ==
    CASE schema = "signUp" ->
            [d EXCEPT !.email = trim(toLowerCase(d.email))]
      [] schema = "signIn" ->
            [d EXCEPT !.email = trim(toLowerCase(d.email))]
      [] schema = "todo" ->
            [title |-> trim(d.title),
             description |-> IF d.description.some
                             THEN Some(trim(d.description.val)) ELSE Undefined]

(***************************************************************************)
(* The state of a component a specification does not exercise.             *)
(***************************************************************************)
NoResult == [success |-> FALSE, data |-> NoData, issues |-> <<>>]

NoInv == [handler |-> "none", allowed |-> FALSE, form |-> NoData,
          called |-> FALSE, payload |-> NoData, shown |-> <<>>, allRejected |-> TRUE]

SanIdle ==
    /\ sInput = <<>>
    /\ sOut = <<>>
    /\ sTwice = <<>>
    /\ sStep = 0

AppIdle ==
    /\ page = "none"
    /\ formData = NoData
    /\ error = <<>>
    /\ loading = FALSE
    /\ checking = FALSE
    /\ pending = 0
    /\ admitted = <<>>
    /\ fetching = 0
    /\ route = "none"
    /\ edits = 0
    /\ inv = NoInv

LimIdle ==
    /\ now = 0
    /\ attempts = EmptyMap
    /\ cfg = EmptyMap
    /\ calls = EmptyMap
    /\ last = NoCall

SchIdle ==
    /\ vInput = [schema |-> "none"]
    /\ vResult = NoResult
    /\ vStep = 0

(***************************************************************************)
(* The three pages. Each page module owns its RateLimiter instance and its *)
(* component state, and the pages share nothing, so a behaviour follows    *)
(* one page. A handler runs without interruption up to its first await;    *)
(* the collaborator's answer resumes it in a later step.                   *)
(***************************************************************************)
SignUpMaxAttempts == 3
SignInMaxAttempts == 5
AddTodoMaxAttempts == 10
WindowMs == 60000

\* the string shown for a plain message
Text(message) == <<message>>

\* ZodError.message: JSON.stringify of the whole issue list
SerializeIssues(issues) ==
    <<"[">> \o [i \in 1..Len(issues) |-> issues[i].message] \o <<"]">>

\* error.message || fallback
MessageOr(message, fallback) == IF message = "" THEN Text(fallback) ELSE Text(message)

\* what the collaborator answers: an error with a message, or success
CollabErrors == {"", "collaborator error"}

\* values a user can put in the fields: type="email" inputs hold no
\* surrounding blanks, the todo inputs hold at most maxLength characters
FormEmails ==
    { <<"a","@","b",".","c","o">>, <<"A","@","B",".","C","o">>, <<"a","@","b">> }

FormPasswords ==
    { <<"P","a","s","s","w","0","r","d">>, <<"p","a","s","s","w","0","r","d">>,
      <<"P","a","<","s",">","w","0","r","d">> }

FormTitles ==
    { <<>>, <<" "," ">>, <<" ","<","b",">","a","<","/","b",">"," ">> }

FormDescriptions ==
    { <<>>, <<" ","<","n",">"," ">> }

EmptyForm(p) ==
    CASE p = "signup" -> [email |-> <<>>, password |-> <<>>, confirmPassword |-> <<>>]
      [] p = "signin" -> [email |-> <<>>, password |-> <<>>]
      [] p = "todo" -> [title |-> <<>>, description |-> Some(<<>>)]

Forms(p) ==
    CASE p = "signup" ->
            {[email |-> e, password |-> pw, confirmPassword |-> c] :
                e \in FormEmails, pw \in FormPasswords, c \in FormPasswords}
      [] p = "signin" ->
            {[email |-> e, password |-> pw] : e \in FormEmails, pw \in FormPasswords}
      [] p = "todo" ->
            {[title |-> t, description |-> Some(d)] :
                t \in FormTitles, d \in FormDescriptions}

InitApp ==
    /\ page \in {"signup", "signin", "todo"}
    /\ formData = EmptyForm(page)
    /\ error = <<>>
    /\ loading = (page = "todo")
    /\ checking = (page = "todo")
    /\ pending = 0
    /\ admitted = <<>>
    /\ fetching = 0
    /\ route = "none"
    /\ edits = 0
    /\ inv = NoInv
    /\ now = 0
    /\ attempts = EmptyMap
    /\ cfg = EmptyMap
    /\ calls = EmptyMap
    /\ last = NoCall
    /\ SanIdle
    /\ SchIdle

\* onChange of the fields: setFormData / setNewTodo
SetFormData ==
    /\ page # "none"
    /\ edits < MaxEdits
    /\ (page = "todo" => ~loading)
    /\ \E f \in Forms(page) : formData' = f
    /\ edits' = edits + 1
    /\ UNCHANGED <<page, error, loading, checking, pending, admitted, fetching, route, inv,
                   limVars, sanVars, schVars>>

\* the clock between two handler steps, moving by one window
TimePasses ==
    /\ page # "none"
    /\ now < MaxTicks * WindowMs
    /\ now' = now + WindowMs
    /\ UNCHANGED <<attempts, cfg, calls, last, sanVars, schVars, appVars>>

(***************************************************************************)
(* Sign-up page.                                                           *)
(***************************************************************************)
\* the argument of supabase.auth.signUp
SignUpCredentials(validated) ==
    [email |-> validated.email, password |-> validated.password]

\* handleSignUp up to its await; the submit button is disabled while
\* loading and the fields are required
HandleSignUp ==
    /\ page = "signup"
    /\ ~loading
    /\ formData.email # <<>> /\ formData.password # <<>>
    /\ formData.confirmPassword # <<>>
    /\ LET r == isAllowed(attempts, "signup", SignUpMaxAttempts, WindowMs, now)
           parsed == signUpSchema(formData)
           base == [handler |-> "signup", allowed |-> r.ok, form |-> formData,
                    called |-> FALSE, payload |-> NoData, shown |-> <<>>,
                    allRejected |-> inv.allRejected /\ (r.ok => ~parsed.success)]
       IN  /\ attempts' = r.attempts
           /\ admitted' = IF r.ok THEN Append(admitted, now) ELSE admitted
           /\ IF ~r.ok
              THEN /\ error' = Text("Terlalu banyak percobaan registrasi. Tunggu 1 menit.")
                   /\ inv' = [base EXCEPT !.shown = error']
                   /\ UNCHANGED <<loading, pending>>
              ELSE IF ~parsed.success
              THEN /\ error' = Text(parsed.issues[1].message)
                   /\ inv' = [base EXCEPT !.shown = error']
                   /\ loading' = FALSE
                   /\ UNCHANGED pending
              ELSE /\ error' = <<>>
                   /\ loading' = TRUE
                   /\ pending' = pending + 1
                   /\ inv' = [base EXCEPT !.called = TRUE,
                                          !.payload = SignUpCredentials(parsed.data)]
    /\ UNCHANGED <<page, formData, checking, fetching, route, edits,
                   now, cfg, calls, last, sanVars, schVars>>

\* handleSignUp from the answer of auth.signUp on
SignUpSettle ==
    /\ page = "signup"
    /\ pending > 0
    /\ \/ \E m \in CollabErrors :
            /\ error' = MessageOr(m, "Gagal membuat akun")
            /\ UNCHANGED route
       \/ /\ route' = "/auth/signin"
          /\ UNCHANGED error
       \/ UNCHANGED <<error, route>>
    /\ loading' = FALSE
    /\ pending' = pending - 1
    /\ UNCHANGED <<page, formData, checking, admitted, fetching, edits, inv,
                   limVars, sanVars, schVars>>

(***************************************************************************)
(* Sign-in page.                                                           *)
(***************************************************************************)
\* the argument of supabase.auth.signInWithPassword
SignInCredentials(validated) ==
    [email |-> validated.email, password |-> validated.password]

HandleSignIn ==
    /\ page = "signin"
    /\ ~loading
    /\ formData.email # <<>> /\ formData.password # <<>>
    /\ LET r == isAllowed(attempts, "signin", SignInMaxAttempts, WindowMs, now)
           parsed == signInSchema(formData)
           base == [handler |-> "signin", allowed |-> r.ok, form |-> formData,
                    called |-> FALSE, payload |-> NoData, shown |-> <<>>,
                    allRejected |-> inv.allRejected /\ (r.ok => ~parsed.success)]
       IN  /\ attempts' = r.attempts
           /\ admitted' = IF r.ok THEN Append(admitted, now) ELSE admitted
           /\ IF ~r.ok
              THEN /\ error' = Text("Terlalu banyak percobaan login. Tunggu 1 menit.")
                   /\ inv' = [base EXCEPT !.shown = error']
                   /\ UNCHANGED <<loading, pending>>
              ELSE IF ~parsed.success
              THEN /\ error' = Text(parsed.issues[1].message)
                   /\ inv' = [base EXCEPT !.shown = error']
                   /\ loading' = FALSE
                   /\ UNCHANGED pending
              ELSE /\ error' = <<>>
                   /\ loading' = TRUE
                   /\ pending' = pending + 1
                   /\ inv' = [base EXCEPT !.called = TRUE,
                                          !.payload = SignInCredentials(parsed.data)]
    /\ UNCHANGED <<page, formData, checking, fetching, route, edits,
                   now, cfg, calls, last, sanVars, schVars>>

SignInSettle ==
    /\ page = "signin"
    /\ pending > 0
    /\ \/ \E m \in CollabErrors :
            /\ error' = MessageOr(m, "Email atau password salah")
            /\ UNCHANGED route
       \/ /\ route' = "/"
          /\ UNCHANGED error
       \/ UNCHANGED <<error, route>>
    /\ loading' = FALSE
    /\ pending' = pending - 1
    /\ UNCHANGED <<page, formData, checking, admitted, fetching, edits, inv,
                   limVars, sanVars, schVars>>

(***************************************************************************)
(* Todo page.                                                              *)
(***************************************************************************)
SanitizedTodoRaw(validated) ==
    [title |-> validated.title, description |-> validated.description]

\* const sanitized = { title: ..., description: ... }
SanitizedTodo(validated) ==
    [title |-> sanitizeInput(validated.title),
     description |-> IF ~validated.description.null
                     THEN Str(sanitizeInput(validated.description.val))
                     ELSE Null]

\* the row given to supabase.from('todos').insert
TodoRow(sanitized) ==
    [title |-> sanitized.title, description |-> sanitized.description,
     completed |-> FALSE]

\* checkUser from the answer of auth.getUser on
CheckUserSettle ==
    /\ page = "todo"
    /\ checking
    /\ checking' = FALSE
    /\ \/ /\ route' = "/auth/signin"
          /\ UNCHANGED fetching
       \/ /\ fetching' = fetching + 1
          /\ UNCHANGED route
    /\ UNCHANGED <<page, formData, error, loading, pending, admitted, edits, inv,
                   limVars, sanVars, schVars>>

\* fetchTodos from the answer of the select on
FetchTodosSettle ==
    /\ page = "todo"
    /\ fetching > 0
    /\ fetching' = fetching - 1
    /\ \/ \E m \in CollabErrors : error' = IF m = "" THEN <<>> ELSE Text(m)
       \/ UNCHANGED error
    /\ loading' = FALSE
    /\ UNCHANGED <<page, formData, checking, pending, admitted, route, edits, inv,
                   limVars, sanVars, schVars>>

\* addTodo with the schema consulted before the rate limiter
AddTodoValidateFirst ==
    /\ page = "todo"
    /\ ~loading
    /\ pending + fetching < MaxPending
    /\ LET parsed == todoSchema(formData)
           r == IF parsed.success
                THEN isAllowed(attempts, "addTodo", AddTodoMaxAttempts, WindowMs, now)
                ELSE [ok |-> TRUE, attempts |-> attempts]
           base == [handler |-> "todo", allowed |-> r.ok, form |-> formData,
                    called |-> FALSE, payload |-> NoData, shown |-> <<>>,
                    allRejected |-> inv.allRejected /\ (r.ok => ~parsed.success)]
       IN  /\ attempts' = r.attempts
           /\ admitted' = IF r.ok /\ parsed.success THEN Append(admitted, now)
                          ELSE admitted
           /\ IF ~r.ok
              THEN /\ error' = Text("Terlalu banyak request. Tunggu sebentar.")
                   /\ inv' = [base EXCEPT !.shown = error']
                   /\ UNCHANGED pending
              ELSE IF ~parsed.success
              THEN /\ error' = SerializeIssues(parsed.issues)
                   /\ inv' = [base EXCEPT !.shown = error']
                   /\ UNCHANGED pending
              ELSE /\ error' = <<>>
                   /\ pending' = pending + 1
                   /\ inv' = [base EXCEPT !.called = TRUE,
                                          !.payload = TodoRow(SanitizedTodo(parsed.data))]
    /\ UNCHANGED <<page, formData, loading, checking, fetching, route, edits,
                   now, cfg, calls, last, sanVars, schVars>>

\* addTodo up to its await; the form is rendered once loading is false.
\* (The second copy of the page also awaits auth.getUser before the insert
\* and adds user_id to the row; limiter, schema and sanitizer calls are equal.)
AddTodo ==
    /\ page = "todo"
    /\ ~loading
    /\ pending + fetching < MaxPending
    /\ LET r == isAllowed(attempts, "addTodo", AddTodoMaxAttempts, WindowMs, now)
           parsed == todoSchema(formData)
           base == [handler |-> "todo", allowed |-> r.ok, form |-> formData,
                    called |-> FALSE, payload |-> NoData, shown |-> <<>>,
                    allRejected |-> inv.allRejected /\ (r.ok => ~parsed.success)]
       IN  /\ attempts' = r.attempts
           /\ admitted' = IF r.ok THEN Append(admitted, now) ELSE admitted
           /\ IF ~r.ok
              THEN /\ error' = Text("Terlalu banyak request. Tunggu sebentar.")
                   /\ inv' = [base EXCEPT !.shown = error']
                   /\ UNCHANGED pending
              ELSE IF ~parsed.success
              THEN /\ error' = SerializeIssues(parsed.issues)
                   /\ inv' = [base EXCEPT !.shown = error']
                   /\ UNCHANGED pending
              ELSE /\ error' = <<>>
                   /\ pending' = pending + 1
                   /\ inv' = [base EXCEPT !.called = TRUE,
                                          !.payload = TodoRow(SanitizedTodo(parsed.data))]
    /\ UNCHANGED <<page, formData, loading, checking, fetching, route, edits,
                   now, cfg, calls, last, sanVars, schVars>>

\* addTodo from the answer of the insert on
AddTodoSettle ==
    /\ page = "todo"
    /\ pending > 0
    /\ pending' = pending - 1
    /\ \/ \E m \in CollabErrors :
            /\ error' = MessageOr(m, "Gagal menambah todo")
            /\ UNCHANGED <<formData, fetching>>
       \/ /\ formData' = EmptyForm("todo")
          /\ fetching' = fetching + 1
          /\ UNCHANGED error
    /\ UNCHANGED <<page, loading, checking, admitted, route, edits, inv,
                   limVars, sanVars, schVars>>

NextApp ==
    \/ SetFormData
    \/ TimePasses
    \/ HandleSignUp
    \/ SignUpSettle
    \/ HandleSignIn
    \/ SignInSettle
    \/ CheckUserSettle
    \/ FetchTodosSettle
    \/ AddTodo
    \/ AddTodoSettle

SpecApp == InitApp /\ [][NextApp]_vars

(***************************************************************************)
(* Schema harness: one parse of one raw object.                            *)
(***************************************************************************)
Rep(c, n) == [i \in 1..n |-> c]

Padded(S) == {Rep(" ", l) \o x \o Rep(" ", r) : x \in S, l \in 0..MaxPad, r \in 0..MaxPad}

RawEmails ==
    Padded({ <<>>, <<"a","@","b",".","c","o">>, <<"A","@","B",".","C","o">>,
             <<"a","@","b">>,
             Rep("a", EmailMax - 5) \o <<"@","b",".","c","o">>,
             Rep("a", EmailMax - 4) \o <<"@","b",".","c","o">> })

RawPasswords ==
    { <<>>, <<"P","a","s","s","w","0","r","d">>, <<"p","a","s","s","w","0","r","d">>,
      <<"P","A","S","S","W","0","R","D">>, <<"P","a","s","s","w","o","r","d">>,
      <<"P","w","0">>, <<" ","P","a","s","s","w","0","r","d">>,
      <<"P","a","<","s",">","w","0","r","d">>,
      <<"P","w","0">> \o Rep("x", PasswordMax - 3),
      <<"P","w","0">> \o Rep("x", PasswordMax - 2) }

RawTitles ==
    Padded({ <<>>, <<"a">>, <<"<","b",">","a","<","/","b",">">>,
             Rep("a", TitleMax - 1), Rep("a", TitleMax), Rep("a", TitleMax + 1) })

RawDescriptions ==
    { Undefined, Some(<<>>), Some(<<" ">>), Some(<<"n","o","t","e">>),
      Some(<<"<",">">>), Some(Rep("d", DescriptionMax)),
      Some(Rep("d", DescriptionMax + 1)) }

SchemaInputs ==
       UNION {{[schema |-> "signUp",
                data |-> [email |-> e, password |-> p, confirmPassword |-> c]] :
                   e \in RawEmails,
                   c \in {p, <<"P","a","s","s","w","0","r","d">>,
                          <<"p","a","s","s","w","0","r","d">>}} :
                p \in RawPasswords}
  \cup {[schema |-> "signIn", data |-> [email |-> e, password |-> p]] :
            e \in RawEmails, p \in RawPasswords}
  \cup {[schema |-> "todo", data |-> [title |-> t, description |-> d]] :
            t \in RawTitles, d \in RawDescriptions}

InitSchema ==
    /\ vInput \in SchemaInputs
    /\ vResult = NoResult
    /\ vStep = 0
    /\ LimIdle
    /\ SanIdle
    /\ AppIdle

ParseSignUp ==
    /\ vStep = 0
    /\ vInput.schema = "signUp"
    /\ vResult' = signUpSchema(vInput.data)
    /\ vStep' = 1
    /\ UNCHANGED <<vInput, limVars, sanVars, appVars>>

ParseSignIn ==
    /\ vStep = 0
    /\ vInput.schema = "signIn"
    /\ vResult' = signInSchema(vInput.data)
    /\ vStep' = 1
    /\ UNCHANGED <<vInput, limVars, sanVars, appVars>>

ParseTodo ==
    /\ vStep = 0
    /\ vInput.schema = "todo"
    /\ vResult' = todoSchema(vInput.data)
    /\ vStep' = 1
    /\ UNCHANGED <<vInput, limVars, sanVars, appVars>>

NextSchema == ParseSignUp \/ ParseSignIn \/ ParseTodo

SpecSchema == InitSchema /\ [][NextSchema]_vars

(***************************************************************************)
(* Sanitizer harness: sanitizeInput applied once and then again to its own *)
(* output, on inputs put together from fragments.                          *)
(***************************************************************************)
Fragments ==
    { <<"<">>, <<">">>, <<" ">>, <<"b">>, <<"o">>,
      <<"o","n","x","=">>, <<"n","x","=">>,
      <<"j","a">>, <<"v","a","s","c","r","i","p","t",":">>,
      <<"J","a","v","a","S","c","r","i","p","t",":">> }

RECURSIVE FragStrings(_)
FragStrings(n) ==
    IF n = 0 THEN {<<>>}
    ELSE LET P == FragStrings(n - 1)
         IN  P \cup {p \o f : p \in P, f \in Fragments}

InitSanitize ==
    /\ sInput \in FragStrings(MaxFrags)
    /\ sOut = <<>>
    /\ sTwice = <<>>
    /\ sStep = 0
    /\ LimIdle
    /\ SchIdle
    /\ AppIdle

Sanitize ==
    /\ sStep = 0
    /\ sOut' = sanitizeInput(sInput)
    /\ sStep' = 1
    /\ UNCHANGED <<sInput, sTwice, limVars, schVars, appVars>>

SanitizeAgain ==
    /\ sStep = 1
    /\ sTwice' = sanitizeInput(sOut)
    /\ sStep' = 2
    /\ UNCHANGED <<sInput, sOut, limVars, schVars, appVars>>

NextSanitize == Sanitize \/ SanitizeAgain

SpecSanitize == InitSanitize /\ [][NextSanitize]_vars

(***************************************************************************)
(* Limiter harness: one RateLimiter instance, each key always called with  *)
(* the same (maxAttempts, windowMs), under a non-decreasing clock.         *)
(***************************************************************************)
InitLimiter ==
    /\ now = 0
    /\ attempts = EmptyMap
    /\ cfg \in [Keys -> [maxAttempts : 1..MaxAttemptsBound, windowMs : 1..MaxWindowMs]]
    /\ calls = [k \in Keys |-> <<>>]
    /\ last = NoCall
    /\ SanIdle
    /\ SchIdle
    /\ AppIdle

RECURSIVE SumLen(_, _)
SumLen(f, S) ==
    IF S = {} THEN 0
    ELSE LET k == CHOOSE x \in S : TRUE IN Len(f[k]) + SumLen(f, S \ {k})

\* the number of isAllowed calls made so far
NumCalls == SumLen(calls, Keys)

CallIsAllowed(key) ==
    /\ NumCalls < MaxCalls
    /\ LET r == isAllowed(attempts, key, cfg[key].maxAttempts, cfg[key].windowMs, now)
       IN  /\ attempts' = r.attempts
           /\ calls' = [calls EXCEPT ![key] = Append(@, [t |-> now, ok |-> r.ok])]
           /\ last' = [key |-> key, t |-> now, ok |-> r.ok, before |-> attempts,
                       deniedBefore |-> \E i \in 1..Len(calls[key]) :
                                           ~calls[key][i].ok]
    /\ UNCHANGED <<now, cfg, sanVars, schVars, appVars>>

ClockAdvance ==
    /\ now < MaxClock
    /\ now' = now + 1
    /\ UNCHANGED <<attempts, cfg, calls, last, sanVars, schVars, appVars>>

NextLimiter ==
    \/ \E key \in Keys : CallIsAllowed(key)
    \/ ClockAdvance

SpecLimiter == InitLimiter /\ [][NextLimiter]_vars

(***************************************************************************)
(* Limiter harness with caller-supplied parameters: maxAttempts and        *)
(* windowMs are arguments of every isAllowed call, so a caller may pass a  *)
(* key different values from one call to the next. cfg holds the           *)
(* parameters of the key's most recent call.                               *)
(***************************************************************************)
InitLimiterFree ==
    /\ now = 0
    /\ attempts = EmptyMap
    /\ cfg = EmptyMap
    /\ calls = [k \in Keys |-> <<>>]
    /\ last = NoCall
    /\ SanIdle
    /\ SchIdle
    /\ AppIdle

CallIsAllowedWith(key, maxAttempts, windowMs) ==
    /\ NumCalls < MaxCalls
    /\ LET r == isAllowed(attempts, key, maxAttempts, windowMs, now)
       IN  /\ attempts' = r.attempts
           /\ calls' = [calls EXCEPT ![key] = Append(@, [t |-> now, ok |-> r.ok])]
           /\ last' = [key |-> key, t |-> now, ok |-> r.ok, before |-> attempts,
                       deniedBefore |-> \E i \in 1..Len(calls[key]) :
                                           ~calls[key][i].ok]
    /\ cfg' = MapSet(cfg, key, [maxAttempts |-> maxAttempts, windowMs |-> windowMs])
    /\ UNCHANGED <<now, sanVars, schVars, appVars>>

NextLimiterFree ==
    \/ \E key \in Keys, maxAttempts \in 1..MaxAttemptsBound, windowMs \in 1..MaxWindowMs :
          CallIsAllowedWith(key, maxAttempts, windowMs)
    \/ ClockAdvance

SpecLimiterFree == InitLimiterFree /\ [][NextLimiterFree]_vars

(***************************************************************************)
(* Views of the call log.                                                  *)
(***************************************************************************)
\* how many of the first n calls on k were admitted with a
\* timestamp in the trailing window of length w that ends at T
AdmittedInWindow(k, n, T, w) ==
    Cardinality({i \in 1..n : /\ calls[k][i].ok
                              /\ calls[k][i].t <= T
                              /\ T - calls[k][i].t < w})

\* how many stored timestamps of sequence b are younger than w at time t
StoredInWindow(b, t, w) == Cardinality({i \in 1..Len(b) : t - b[i] < w})

(***************************************************************************)
(* C1: isAllowed returns true exactly when fewer than maxAttempts stored   *)
(* timestamps of the key are younger than windowMs; it then stores the     *)
(* current time as the newest timestamp of the key, and a denied call      *)
(* stores nothing. On a fresh key the first maxAttempts calls inside the   *)
(* window of the first one are all admitted and the call after them,       *)
(* still inside that window, is denied.                                    *)
(***************************************************************************)
C1_IsAllowedContract ==
    /\ last # NoCall =>
          LET b == MapGet(last.before, last.key)
              c == cfg[last.key]
              a == MapGet(attempts, last.key)
          IN  /\ last.ok <=> StoredInWindow(b, last.t, c.windowMs) < c.maxAttempts
              /\ last.ok => /\ Len(a) = StoredInWindow(b, last.t, c.windowMs) + 1
                            /\ a[Len(a)] = last.t
              /\ ~last.ok => attempts = last.before
    /\ \A k \in Keys :
          \A n \in 1..Len(calls[k]) :
             calls[k][n].t - calls[k][1].t < cfg[k].windowMs =>
                /\ n <= cfg[k].maxAttempts => calls[k][n].ok
                /\ n = cfg[k].maxAttempts + 1 => ~calls[k][n].ok

\* three admitted calls followed by a denied one, maxAttempts = 3
C1_Witness ==
    \E k \in Keys :
       /\ cfg[k].maxAttempts = 3
       /\ Len(calls[k]) = 4
       /\ \A n \in 1..3 : calls[k][n].ok
       /\ ~calls[k][4].ok
       /\ last.key = k

(***************************************************************************)
(* C2: sliding-window invariant. For every key and every instant T, the    *)
(* admitted calls of the key whose timestamps lie in the trailing window   *)
(* of length windowMs ending at T number at most maxAttempts; and a call   *)
(* is admitted exactly when fewer than maxAttempts earlier admitted calls  *)
(* lie in the window ending at the call, so older ones never count.        *)
(***************************************************************************)
C2_SlidingWindow ==
    /\ \A k \in Keys : \A T \in 0..(MaxClock + 1) :
          AdmittedInWindow(k, Len(calls[k]), T, cfg[k].windowMs) <= cfg[k].maxAttempts
    /\ last # NoCall =>
          (last.ok <=> AdmittedInWindow(last.key, Len(calls[last.key]) - 1, last.t,
                                        cfg[last.key].windowMs)
                          < cfg[last.key].maxAttempts)

\* a call admitted while the key holds maxAttempts admitted timestamps, of
\* which at least one has left the window
C2_Witness ==
    /\ last # NoCall
    /\ last.ok
    /\ Len(MapGet(last.before, last.key)) = cfg[last.key].maxAttempts
    /\ cfg[last.key].maxAttempts >= 2
    /\ AdmittedInWindow(last.key, Len(calls[last.key]), last.t,
                        cfg[last.key].windowMs)
          = cfg[last.key].maxAttempts

(***************************************************************************)
(* C3: recovery. A call on a key that has been denied before, made when    *)
(* the oldest stored timestamp of the key is more than windowMs old, is    *)
(* admitted, however many denied calls came in between.                    *)
(***************************************************************************)
C3_Recovery ==
    (/\ last # NoCall
     /\ last.deniedBefore
     /\ MapGet(last.before, last.key) # <<>>
     /\ last.t - Head(MapGet(last.before, last.key)) > cfg[last.key].windowMs)
    => last.ok

\* at least two consecutive denials, then an admitted call after the window
C3_Witness ==
    /\ last # NoCall
    /\ last.ok
    /\ last.deniedBefore
    /\ last.t - Head(MapGet(last.before, last.key)) > cfg[last.key].windowMs
    /\ LET c == calls[last.key]
       IN  /\ Len(c) >= 4
           /\ ~c[Len(c) - 1].ok
           /\ ~c[Len(c) - 2].ok

(***************************************************************************)
(* C4: distinct keys never interact. A call on one key leaves the entry    *)
(* of every other key (its presence and its timestamps) as it was, and so  *)
(* leaves the outcome of a call on the other key unchanged.                *)
(***************************************************************************)
C4_KeysIndependent ==
    [][\A k \in Keys :
          (calls' # calls /\ last'.key # k) =>
             /\ (k \in DOMAIN attempts') = (k \in DOMAIN attempts)
             /\ MapGet(attempts', k) = MapGet(attempts, k)
             /\ isAllowed(attempts', k, cfg[k].maxAttempts, cfg[k].windowMs, now).ok
                  = isAllowed(attempts, k, cfg[k].maxAttempts, cfg[k].windowMs, now).ok]_vars

\* k2 admitted after k1 was denied and while k1 is still exhausted
C4_Witness ==
    /\ last # NoCall
    /\ last.key = "k2"
    /\ last.ok
    /\ "k1" \in DOMAIN attempts
    /\ \E i \in 1..Len(calls["k1"]) :
          ~calls["k1"][i].ok /\ calls["k1"][i].t < last.t
    /\ StoredInWindow(attempts["k1"], last.t, cfg["k1"].windowMs)
          >= cfg["k1"].maxAttempts

(***************************************************************************)
(* C7: the sanitizer is idempotent: sanitizing the sanitized string gives  *)
(* the sanitized string back.                                              *)
(***************************************************************************)
C7_Idempotent == sStep = 2 => sTwice = sOut

(***************************************************************************)
(* C8: the sanitized string holds no "<" and no ">" and neither starts     *)
(* nor ends with whitespace; every input has a result, which may be the    *)
(* empty string.                                                           *)
(***************************************************************************)
C8_NoAnglesTrimmed ==
    sStep >= 1 =>
       /\ \A i \in 1..Len(sOut) : sOut[i] \notin {"<", ">"}
       /\ sOut # <<>> => ~IsWhitespace(sOut[1]) /\ ~IsWhitespace(sOut[Len(sOut)])
       /\ Len(sOut) <= Len(sInput)

\* an input whose first character is an angle bracket followed by a blank
C8_Witness ==
    /\ sStep = 1
    /\ Len(sInput) >= 3
    /\ sInput[1] = "<"
    /\ sInput[2] = " "
    /\ sOut # <<>>

(***************************************************************************)
(* C9: validation normalizes a field (trim; lowercase for email) before    *)
(* it checks the field's length and format, so a raw object is accepted    *)
(* exactly when its normalized form is.                                    *)
(***************************************************************************)
C9_NormalizedBeforeChecks ==
    vStep = 1 =>
       (vResult.success <=> Parse(vInput.schema, Normalized(vInput.schema, vInput.data)).success)

(***************************************************************************)
(* Views of a page's last handler invocation.                              *)
(***************************************************************************)
\* the schema a handler parses its form with
SchemaOf(handler) ==
    CASE handler = "signup" -> "signUp"
      [] handler = "signin" -> "signIn"
      [] handler = "todo" -> "todo"

\* the budget a handler passes to isAllowed
MaxAttemptsOf(handler) ==
    CASE handler = "signup" -> SignUpMaxAttempts
      [] handler = "signin" -> SignInMaxAttempts
      [] handler = "todo" -> AddTodoMaxAttempts

\* the message a handler shows when isAllowed denies it
DeniedText(handler) ==
    CASE handler = "signup" -> "Terlalu banyak percobaan registrasi. Tunggu 1 menit."
      [] handler = "signin" -> "Terlalu banyak percobaan login. Tunggu 1 menit."
      [] handler = "todo" -> "Terlalu banyak request. Tunggu sebentar."

\* how many admitted invocations have a timestamp in the window ending at T
AdmittedBy(T) ==
    Cardinality({i \in 1..Len(admitted) : admitted[i] <= T /\ T - admitted[i] < WindowMs})

(***************************************************************************)
(* C5: admission is atomic under interleaving. Handlers suspended at an    *)
(* await overlap with later invocations, yet the invocations admitted      *)
(* inside any window never exceed the budget: with one slot left, one of   *)
(* the racing invocations takes it and the others are denied.              *)
(***************************************************************************)
C5_AtomicAdmission ==
    page # "none" =>
       \A k \in 0..(MaxTicks + 1) : AdmittedBy(k * WindowMs) <= MaxAttemptsOf(page)

\* addTodo denied while an earlier addTodo, admitted at the same instant
\* into the last slot, is still suspended at its insert
C5_Witness ==
    /\ page = "todo"
    /\ pending >= 1
    /\ inv.handler = "todo"
    /\ ~inv.allowed
    /\ AdmittedBy(now) = AddTodoMaxAttempts
    /\ admitted[Len(admitted)] = now

(***************************************************************************)
(* C6: admission pipeline. A handler calls the collaborator exactly when   *)
(* isAllowed admitted the submission and the schema then accepted it; a    *)
(* denied submission shows the rate-limit message whatever the form        *)
(* holds. Sign-up and sign-in hand over the lowercased, trimmed email and  *)
(* the password as typed; add-todo hands over the sanitized trimmed title  *)
(* and the sanitized trimmed description, or null when it is blank.        *)
(***************************************************************************)
C6_Pipeline ==
    inv.handler # "none" =>
       LET parsed == Parse(SchemaOf(inv.handler), inv.form)
       IN  /\ inv.called <=> (inv.allowed /\ parsed.success)
           /\ ~inv.allowed => inv.shown = Text(DeniedText(inv.handler))
           /\ (inv.called /\ inv.handler \in {"signup", "signin"}) =>
                 inv.payload = [email |-> trim(toLowerCase(inv.form.email)),
                                password |-> inv.form.password]
           /\ (inv.called /\ inv.handler = "todo") =>
                 inv.payload =
                    [title |-> sanitizeInput(trim(inv.form.title)),
                     description |->
                        IF trim(inv.form.description.val) = <<>> THEN Null
                        ELSE Str(sanitizeInput(trim(inv.form.description.val))),
                     completed |-> FALSE]

\* an add-todo whose title the sanitizer changed on its way to storage
C6_Witness ==
    /\ inv.handler = "todo"
    /\ inv.called
    /\ inv.payload.title # <<>>
    /\ inv.payload.title # trim(inv.form.title)
    /\ ~inv.payload.description.null

(***************************************************************************)
(* C10: fail-fast single-error reporting. When the schema rejects an       *)
(* admitted submission, the handler shows exactly the message of the       *)
(* first violated rule.                                                    *)
(***************************************************************************)
C10_FirstMessageShown ==
    (/\ inv.handler # "none"
     /\ inv.allowed
     /\ ~Parse(SchemaOf(inv.handler), inv.form).success)
    => inv.shown = Text(Parse(SchemaOf(inv.handler), inv.form).issues[1].message)

(***************************************************************************)
(* C11: a sign-up whose password and confirmation differ (compared as      *)
(* typed, case included) is rejected and never reaches the collaborator.   *)
(* The failure shown is the first violated rule in declaration order:      *)
(* the email's rules, then the password's rules, and the mismatch on       *)
(* confirmPassword when email and password are valid by themselves.        *)
(***************************************************************************)
\* the message of the first rule a sign-up form violates, "" when none
FirstViolatedRule(d) ==
    CASE ~IsEmail(d.email) -> "Email tidak valid"
      [] IsEmail(d.email) /\ Len(d.email) < EmailMin -> "Email minimal 5 karakter"
      [] IsEmail(d.email) /\ Len(d.email) > EmailMax -> "Email maksimal 100 karakter"
      [] OTHER ->
           IF Len(d.password) < PasswordMin THEN "Password minimal 8 karakter"
           ELSE IF Len(d.password) > PasswordMax THEN "Password maksimal 100 karakter"
           ELSE IF \A i \in 1..Len(d.password) : ~IsUpper(d.password[i])
                THEN "Password harus mengandung huruf besar"
           ELSE IF \A i \in 1..Len(d.password) : ~IsLower(d.password[i])
                THEN "Password harus mengandung huruf kecil"
           ELSE IF \A i \in 1..Len(d.password) : ~IsDigit(d.password[i])
                THEN "Password harus mengandung angka"
           ELSE IF d.password # d.confirmPassword THEN "Password tidak cocok"
           ELSE ""

C11_MismatchReported ==
    (/\ inv.handler = "signup"
     /\ inv.allowed
     /\ inv.form.password # inv.form.confirmPassword)
    => LET parsed == Parse("signUp", inv.form)
           n == Len(parsed.issues)
       IN  /\ ~parsed.success
           /\ ~inv.called
           /\ n >= 1
           /\ parsed.issues[n].path = "confirmPassword"
           /\ parsed.issues[n].message = "Password tidak cocok"
           /\ inv.shown = Text(FirstViolatedRule(inv.form))
           /\ FirstViolatedRule(inv.form) = "Password tidak cocok"
                 <=> n = 1

\* a valid email and a valid password whose confirmation differs from it
\* only in case: the mismatch is what the page shows
C11_Witness ==
    /\ inv.handler = "signup"
    /\ inv.allowed
    /\ inv.form.password # inv.form.confirmPassword
    /\ toLowerCase(inv.form.password) = toLowerCase(inv.form.confirmPassword)
    /\ inv.shown = Text("Password tidak cocok")
    /\ error = inv.shown

(***************************************************************************)
(* C12: a well-formed sign-up object (an email the email pattern accepts,  *)
(* of 5 to 100 characters; a password of 8 to 100 characters with an       *)
(* uppercase letter, a lowercase letter and a digit; confirmPassword equal *)
(* to password) is accepted; the returned email is the input email         *)
(* lowercased and trimmed, the returned password is the input password     *)
(* character for character.                                                *)
(***************************************************************************)
\* the raw sign-up object meets every declared rule
WellFormedSignUp(d) ==
    /\ IsEmail(d.email)
    /\ Len(d.email) >= EmailMin /\ Len(d.email) <= EmailMax
    /\ Len(d.password) >= PasswordMin /\ Len(d.password) <= PasswordMax
    /\ \E i \in 1..Len(d.password) : IsUpper(d.password[i])
    /\ \E i \in 1..Len(d.password) : IsLower(d.password[i])
    /\ \E i \in 1..Len(d.password) : IsDigit(d.password[i])
    /\ d.password = d.confirmPassword

C12_WellFormedAccepted ==
    (vStep = 1 /\ vInput.schema = "signUp" /\ WellFormedSignUp(vInput.data))
    => /\ vResult.success
       /\ vResult.data.email = trim(toLowerCase(vInput.data.email))
       /\ Len(vResult.data.email) = Len(vInput.data.email)
       /\ \A i \in 1..Len(vInput.data.email) :
             IF IsUpper(vInput.data.email[i])
             THEN /\ IsLower(vResult.data.email[i])
                  /\ \E j \in 1..26 : /\ UpperChars[j] = vInput.data.email[i]
                                       /\ LowerChars[j] = vResult.data.email[i]
             ELSE vResult.data.email[i] = vInput.data.email[i]
       /\ vResult.data.password = vInput.data.password

\* an accepted sign-up with uppercase letters in the email and a password
\* that starts with a blank, returned with the blank
C12_Witness ==
    /\ vStep = 1
    /\ vInput.schema = "signUp"
    /\ WellFormedSignUp(vInput.data)
    /\ \E i \in 1..Len(vInput.data.email) : IsUpper(vInput.data.email[i])
    /\ vInput.data.password[1] = " "
    /\ vResult.success
    /\ vResult.data.password[1] = " "

(***************************************************************************)
(* C13: title bounds. A title of exactly 200 characters is accepted and    *)
(* one of 201 characters is rejected with a too_big issue on title; the    *)
(* title of every accepted todo is trimmed and has 1 to 200 characters,    *)
(* so a title that is empty, or empty once trimmed, is rejected.           *)
(***************************************************************************)
C13_TitleBounds ==
    (vStep = 1 /\ vInput.schema = "todo")
    => LET title == vInput.data.title
           description == vInput.data.description
       IN  /\ (Len(title) = TitleMax
                  /\ (description.some => Len(description.val) <= DescriptionMax))
                 => vResult.success
           /\ Len(title) = TitleMax + 1 =>
                 /\ ~vResult.success
                 /\ \E i \in 1..Len(vResult.issues) :
                       /\ vResult.issues[i].path = "title"
                       /\ vResult.issues[i].code = "too_big"
           /\ vResult.success =>
                 /\ vResult.data.title = trim(vResult.data.title)
                 /\ Len(vResult.data.title) >= TitleMin
                 /\ Len(vResult.data.title) <= TitleMax
           /\ trim(title) = <<>> => ~vResult.success

(***************************************************************************)
(* C14: a denied isAllowed call writes the pruned sequence back: after the *)
(* call the key's stored sequence is the stored sequence of before without *)
(* the timestamps that have left the window, so it holds no timestamp      *)
(* older than the window.                                                  *)
(***************************************************************************)
C14_PrunedOnDenial ==
    (last # NoCall /\ ~last.ok)
    => LET a == MapGet(attempts, last.key)
           w == cfg[last.key].windowMs
       IN  /\ last.key \in DOMAIN attempts
           /\ \A i \in 1..Len(a) : last.t - a[i] <= w
           /\ \A i \in 1..Len(MapGet(last.before, last.key)) :
                 last.t - MapGet(last.before, last.key)[i] < w
                    => \E j \in 1..Len(a) : a[j] = MapGet(last.before, last.key)[i]

(***************************************************************************)
(* C15: window boundary. isAllowed discards only the timestamps strictly   *)
(* older than now - windowMs, so a stored timestamp whose age is exactly   *)
(* windowMs still counts: a call made when maxAttempts stored timestamps   *)
(* of the key have an age of at most windowMs is denied.                   *)
(***************************************************************************)
C15_BoundaryCounts ==
    last # NoCall =>
       LET b == MapGet(last.before, last.key)
           c == cfg[last.key]
       IN  Cardinality({i \in 1..Len(b) : last.t - b[i] <= c.windowMs}) >= c.maxAttempts
              => ~last.ok

(***************************************************************************)
(* C16: add-todo never hands an empty string to storage. The stored title  *)
(* is non-empty; the stored description is null or a non-empty string,     *)
(* and it is null when the description typed is empty or blank.            *)
(***************************************************************************)
C16_NoEmptyStored ==
    (inv.handler = "todo" /\ inv.called)
    => /\ inv.payload.title # <<>>
       /\ inv.payload.description.null \/ inv.payload.description.val # <<>>
       /\ trim(inv.form.description.val) = <<>> => inv.payload.description.null

(***************************************************************************)
(* C17: the rate-limit budget is consumed before validation and is never   *)
(* refunded. A submission made while fewer than maxAttempts admitted       *)
(* submissions lie in the window is admitted and recorded for the key,     *)
(* whether or not the schema then accepts it; a submission made while      *)
(* maxAttempts admitted submissions (valid or not) lie in the window is    *)
(* denied with the rate-limit message, reaches neither the schema's        *)
(* message nor the collaborator, and records nothing; no other step (a     *)
(* collaborator's answer, an edit, the clock) changes what is recorded.    *)
(***************************************************************************)
\* the key a page's handler passes to isAllowed
KeyOf(handler) ==
    CASE handler = "signup" -> "signup"
      [] handler = "signin" -> "signin"
      [] handler = "todo" -> "addTodo"

C17_BudgetBeforeValidation ==
    [][page # "none" =>
         LET key == KeyOf(page)
             submitted == inv' # inv \/ admitted' # admitted
         IN  /\ (submitted /\ AdmittedBy(now) < MaxAttemptsOf(page)) =>
                   /\ inv'.allowed
                   /\ admitted' = Append(admitted, now)
                   /\ MapGet(attempts', key)
                         = Append(RecentAttempts(MapGet(attempts, key), now, WindowMs), now)
             /\ (submitted /\ AdmittedBy(now) >= MaxAttemptsOf(page)) =>
                   /\ ~inv'.allowed
                   /\ ~inv'.called
                   /\ inv'.shown = Text(DeniedText(page))
                   /\ error' = inv'.shown
                   /\ attempts' = attempts
                   /\ admitted' = admitted
             /\ ~submitted => attempts' = attempts]_vars

\* ten add-todo submissions that the schema rejected have used up the
\* budget, and a submission the schema would accept is denied
C17_Witness ==
    /\ page = "todo"
    /\ inv.handler = "todo"
    /\ inv.allRejected
    /\ Len(admitted) = AddTodoMaxAttempts
    /\ AdmittedBy(now) = AddTodoMaxAttempts
    /\ ~inv.allowed
    /\ Parse("todo", inv.form).success
    /\ error = Text(DeniedText("todo"))

(***************************************************************************)
(* C18: stored-state invariant. For a key always called with the same      *)
(* maxAttempts >= 1 and windowMs under a non-decreasing clock, the stored  *)
(* timestamps of the key are in non-decreasing order and number at most    *)
(* maxAttempts; the key has an entry exactly from its first call on, which *)
(* is admitted, and no step removes an entry from the map.                 *)
(***************************************************************************)
C18_StoredState ==
    \A k \in Keys :
       LET a == MapGet(attempts, k)
       IN  /\ \A i \in 1..Len(a) : \A j \in i..Len(a) : a[i] <= a[j]
           /\ Len(a) <= cfg[k].maxAttempts
           /\ \A i \in 1..Len(a) : a[i] <= now
           /\ k \in DOMAIN attempts <=> calls[k] # <<>>
           /\ calls[k] # <<>> => calls[k][1].ok

\* a full list that holds the same instant twice, stored after the key's
\* first timestamp was pruned, and kept through a denied call
C18_Witness ==
    \E k \in Keys :
       /\ k \in DOMAIN attempts
       /\ cfg[k].maxAttempts >= 2
       /\ Len(attempts[k]) = cfg[k].maxAttempts
       /\ attempts[k][1] = attempts[k][2]
       /\ attempts[k][1] > calls[k][1].t
       /\ last.key = k
       /\ ~last.ok

====
